---- MODULE Spec2Model ----
(***************************************************************************)
(* A model of rvfitting's correlated_likelihood.py: the log-prior, the     *)
(* log-likelihood with an exponential noise kernel, the data-driven prior  *)
(* bounds, the ensemble initializer and the recenterer.                    *)
(*                                                                         *)
(* Numbers.  Floating-point quantities are fixed-point integers.  A        *)
(* parameter vector is a flat sequence of integers; a bound is an integer  *)
(* or one of the sentinels Inf / NegInf (float('inf'), float('-inf')).     *)
(* A value that a function returns (a log-prior, a log-likelihood) is an   *)
(* extended real: a record [k, v] with k one of "fin", "-inf", "+inf",     *)
(* "nan"; a call that raises returns k = "raise".                          *)
(***************************************************************************)
EXTENDS Integers, Sequences, FiniteSets, TLC

\* ------------------------------------------------------------------ bounds
\* Largest number of observatories and of planets of a layout.
MaxNobs == 2
MaxNpl == 2
\* Number of single-coordinate proposal moves made from the seed.
MaxMoves == 1
\* Upper end of the explicit bounds the prior is given.
BoxHi == 3
\* Largest ensemble shape (temperatures, walkers).
MaxTemps == 2
MaxWalkers == 2
\* Largest number of samples of one observatory, and the latest sample time.
MaxSamples == 2
MaxT == 2
\* Bits of state of the random generator.
RngBits == 3

RECURSIVE Pow2(_)
Pow2(n) == IF n <= 0 THEN 1 ELSE 2 * Pow2(n - 1)

\* The random generator has RngMod states and random_sample() has RngMod
\* values.
RngMod == Pow2(RngBits)
\* Fixed-point resolution: the integer that stands for 1.0 in e, chi and
\* omega, as fine as the generator's samples.
One == RngMod

\* float('inf'), as set in LogPrior.__init__; every finite value of the
\* model is far below it.
Inf == 1000000
NegInf == -Inf
\* 2.0*np.pi in the fixed-point unit.
TwoPi == (628 * One) \div 100

\* ------------------------------------------------------- extended reals
Fin(n) == [k |-> "fin", v |-> n]
NegInfR == [k |-> "-inf", v |-> 0]
PosInfR == [k |-> "+inf", v |-> 0]
NaNR == [k |-> "nan", v |-> 0]
Raised == [k |-> "raise", v |-> 0]

\* IEEE addition of extended reals.
ExtAdd(a, b) ==
  IF a.k = "nan" \/ b.k = "nan" THEN NaNR
  ELSE IF a.k = "fin" /\ b.k = "fin" THEN Fin(a.v + b.v)
  ELSE IF a.k = "fin" THEN b
  ELSE IF b.k = "fin" THEN a
  ELSE IF a.k = b.k THEN a
  ELSE NaNR

\* IEEE negation.
ExtNeg(a) ==
  IF a.k = "fin" THEN Fin(-a.v)
  ELSE IF a.k = "-inf" THEN PosInfR
  ELSE IF a.k = "+inf" THEN NegInfR
  ELSE a

ExtSub(a, b) == ExtAdd(a, ExtNeg(b))

RECURSIVE ILog2(_)
\* floor(log2(x)) for x >= 1.
ILog2(x) == IF x <= 1 THEN 0 ELSE 1 + ILog2(x \div 2)

\* np.log of a fixed-point number: finite for a positive argument, -inf at
\* zero and nan below it (numpy warns and does not raise).
Log(x) == IF x > 0 THEN Fin(ILog2(x)) ELSE IF x = 0 THEN NegInfR ELSE NaNR

Min2(a, b) == IF a <= b THEN a ELSE b
Max2(a, b) == IF a >= b THEN a ELSE b
Abs(x) == IF x < 0 THEN -x ELSE x

\* -------------------------------------------------- the parameter vector
\* parameters.Parameters: a flat vector of 3*nobs + 5*npl numbers, V, sigma,
\* tau for each observatory and then K, n, e, chi, omega for each planet.
Dim(nobs, npl) == 3 * nobs + 5 * npl

IxV(i) == 3 * (i - 1) + 1
IxSigma(i) == 3 * (i - 1) + 2
IxTau(i) == 3 * (i - 1) + 3
IxK(nobs, j) == 3 * nobs + 5 * (j - 1) + 1
IxN(nobs, j) == 3 * nobs + 5 * (j - 1) + 2
IxE(nobs, j) == 3 * nobs + 5 * (j - 1) + 3
IxChi(nobs, j) == 3 * nobs + 5 * (j - 1) + 4
IxOmega(nobs, j) == 3 * nobs + 5 * (j - 1) + 5

VIxs(nobs) == {IxV(i) : i \in 1..nobs}
SigmaIxs(nobs) == {IxSigma(i) : i \in 1..nobs}
TauIxs(nobs) == {IxTau(i) : i \in 1..nobs}
KIxs(nobs, npl) == {IxK(nobs, j) : j \in 1..npl}
NIxs(nobs, npl) == {IxN(nobs, j) : j \in 1..npl}
EIxs(nobs, npl) == {IxE(nobs, j) : j \in 1..npl}
ChiIxs(nobs, npl) == {IxChi(nobs, j) : j \in 1..npl}
OmegaIxs(nobs, npl) == {IxOmega(nobs, j) : j \in 1..npl}

\* Parameters(arr, nobs=, npl=): the vector is taken as it is when its
\* length matches the layout, and the construction raises otherwise.
ShapeOk(p, nobs, npl) == Len(p) = Dim(nobs, npl)

\* Parameters.P: the period 2*pi/n of a mean motion n (inf at n = 0).
Period(n) == IF n = 0 THEN Inf ELSE (TwoPi * One) \div n

\* Parameters(npl=, nobs=) with no array: a vector of zeros.
ZeroParams(nobs, npl) == [i \in 1..Dim(nobs, npl) |-> 0]

VARIABLES
  lp,        \* the LogPrior instance: [pmin, pmax, npl, nobs], or NoInstance
  lp0,       \* what the constructor stored (history)
  prop,      \* the array a walker passes to __call__
  propIn,    \* the same array as it was before the call (history)
  caller,    \* the walker that made the last call, or "none"
  lnprior,   \* what the last call returned
  nmoves     \* proposal moves made so far

priorVars == <<lp, lp0, prop, propIn, caller, lnprior, nmoves>>

VARIABLES
  rng,       \* the state of numpy.random's global generator
  gen,       \* the last generate_initial_sample call: its arguments and result
  seedPrior  \* what a LogPrior built with the same bounds returns for a seed

genVars == <<rng, gen, seedPrior>>

VARIABLES
  ll,        \* the LogLikelihood instance: [ts, rvs], or NoData
  llcall     \* the last LogLikelihood.__call__: its argument and outcome

likVars == <<ll, llcall>>

VARIABLES
  heap,      \* array storage: buffer -> contents (chains, logls, the copy)
  heap0,     \* the storage as it was before recenter_samples ran (history)
  rc         \* the last recenter_samples call: its arguments and outcome

recVars == <<heap, heap0, rc>>

VARIABLES
  pb         \* the last prior_bounds_from_data call: its data and result

bndVars == <<pb>>
vars == <<priorVars, genVars, likVars, recVars, bndVars>>

NoInstance == [pmin |-> <<>>, pmax |-> <<>>, npl |-> -1, nobs |-> -1]
NoResult == [k |-> "none", v |-> 0]
Walkers == {"w1", "w2"}

\* ------------------------------------------------------------- LogPrior
\* The default lower bounds: 0.0 * Parameters(), then V = -inf.
DefaultPmin(nobs, npl) ==
  [i \in 1..Dim(nobs, npl) |-> IF i \in VIxs(nobs) THEN NegInf ELSE 0]

\* The default upper bounds: Parameters() + inf, then chi = e = 1.0 and
\* omega = 2*pi.
DefaultPmax(nobs, npl) ==
  [i \in 1..Dim(nobs, npl) |->
     IF i \in ChiIxs(nobs, npl) \/ i \in EIxs(nobs, npl) THEN One
     ELSE IF i \in OmegaIxs(nobs, npl) THEN TwoPi
     ELSE Inf]

\* LogPrior.__init__(pmin, pmax, npl, nobs); <<>> stands for None.
LogPriorInit(pmin, pmax, npl, nobs) ==
  [pmin |-> IF pmin = <<>> THEN DefaultPmin(nobs, npl) ELSE pmin,
   pmax |-> IF pmax = <<>> THEN DefaultPmax(nobs, npl) ELSE pmax,
   npl |-> npl,
   nobs |-> nobs]

\* Mutant: the comparison is strict, so a field on its bound is accepted.
OutOfBoundsStrict(self, p) ==
  \E i \in 1..Len(p) : p[i] < self.pmin[i] \/ p[i] > self.pmax[i]

\* np.any(p <= self._pmin) or np.any(p >= self._pmax)
OutOfBounds(self, p) ==
  \E i \in 1..Len(p) : p[i] <= self.pmin[i] \/ p[i] >= self.pmax[i]

\* Mutant: the order test is reversed (decreasing periods required).
PeriodsOutOfOrderReversed(self, p) ==
  /\ self.npl > 1
  /\ \E j \in 1..(self.npl - 1) :
       Period(p[IxN(self.nobs, j + 1)]) > Period(p[IxN(self.nobs, j)])

\* p.npl > 1 and np.any(p.P[1:] < p.P[:-1])
PeriodsOutOfOrder(self, p) ==
  /\ self.npl > 1
  /\ \E j \in 1..(self.npl - 1) :
       Period(p[IxN(self.nobs, j + 1)]) < Period(p[IxN(self.nobs, j)])

RECURSIVE SumLog(_, _)
\* The sum of np.log(p[i]) over the indices ixs.
SumLog(p, ixs) ==
  IF ixs = {} THEN Fin(0)
  ELSE LET i == CHOOSE x \in ixs : TRUE
       IN ExtAdd(Log(p[i]), SumLog(p, ixs \ {i}))

\* The accumulated log-prior: Jeffreys terms on sigma, tau, K, n and the
\* thermal term on e.
PriorTerms(self, p) ==
  LET scale == SigmaIxs(self.nobs) \cup TauIxs(self.nobs)
                 \cup KIxs(self.nobs, self.npl) \cup NIxs(self.nobs, self.npl)
  IN ExtAdd(ExtSub(Fin(0), SumLog(p, scale)),
            SumLog(p, EIxs(self.nobs, self.npl)))

\* The value LogPrior.__call__(p) returns.
LogPriorValue(self, p) ==
  IF ~ShapeOk(p, self.nobs, self.npl) THEN Raised
  ELSE IF OutOfBounds(self, p) THEN NegInfR
  ELSE IF PeriodsOutOfOrder(self, p) THEN NegInfR
  ELSE PriorTerms(self, p)

\* Mutant: the call resolves the default bounds lazily, overwriting the
\* lower bounds the instance holds.
LogPriorCallLazy(self, p) ==
  LET s2 == [self EXCEPT !.pmin = DefaultPmin(self.nobs, self.npl)]
  IN [self |-> s2, p |-> p, ret |-> LogPriorValue(s2, p)]

\* LogPrior.__call__(p) with its effects: the instance and the caller's
\* array after the call, and the value returned.  The call rebinds its
\* local p to a view and writes to neither.
LogPriorCall(self, p) ==
  [self |-> self, p |-> p, ret |-> LogPriorValue(self, p)]

\* --------------------------------------------------- inputs of the prior
\* Explicit bounds: the same open interval (ExplLo, ExplHi) in every field.
ExplLo == 0 - 1
ExplHi == BoxHi
ExplicitPmin(nobs, npl) == [i \in 1..Dim(nobs, npl) |-> ExplLo]
ExplicitPmax(nobs, npl) == [i \in 1..Dim(nobs, npl) |-> ExplHi]

\* A walker's seed: the same value in every field.
SeedValues == 0..(ExplHi - 1)
Seed(nobs, npl, c) == [i \in 1..Dim(nobs, npl) |-> c]

PriorIdle ==
  /\ lp = NoInstance
  /\ lp0 = NoInstance
  /\ prop = <<>>
  /\ propIn = <<>>
  /\ caller = "none"
  /\ lnprior = NoResult
  /\ nmoves = 0

GenIdle ==
  /\ rng = 0
  /\ gen = [state |-> "idle"]
  /\ seedPrior = NoResult

LikIdle ==
  /\ ll = [ts |-> <<>>, rvs |-> <<>>]
  /\ llcall = [state |-> "idle"]

RecIdle ==
  /\ heap = <<>>
  /\ heap0 = <<>>
  /\ rc = [state |-> "idle"]

BndIdle == pb = [state |-> "idle"]

PriorInit ==
  /\ GenIdle
  /\ LikIdle
  /\ RecIdle
  /\ BndIdle
  /\ lp = NoInstance
  /\ lp0 = NoInstance
  /\ prop = <<>>
  /\ propIn = <<>>
  /\ caller = "none"
  /\ lnprior = NoResult
  /\ nmoves = 0

\* prior = LogPrior(pmin, pmax, npl, nobs), and the walkers' seed.
Construct ==
  /\ lp = NoInstance
  /\ \E nobs \in 1..MaxNobs, npl \in 0..MaxNpl, c \in SeedValues :
       \E b \in {<<<<>>, <<>>>>,
                 <<ExplicitPmin(nobs, npl), ExplicitPmax(nobs, npl)>>} :
         /\ lp' = LogPriorInit(b[1], b[2], npl, nobs)
         /\ lp0' = lp'
         /\ prop' = Seed(nobs, npl, c)
         /\ propIn' = prop'
  /\ UNCHANGED <<caller, lnprior, nmoves>>
  /\ UNCHANGED <<genVars, likVars, recVars, bndVars>>

\* A walker w moves one coordinate of the proposal by one step and calls
\* the prior on it.
Call(w) ==
  /\ lp # NoInstance
  /\ nmoves < MaxMoves
  /\ \E i \in 1..Len(prop), d \in {-1, 1} :
       LET arg == [prop EXCEPT ![i] = @ + d]
           post == LogPriorCall(lp, arg)
       IN /\ propIn' = arg
          /\ prop' = post.p
          /\ lp' = post.self
          /\ lnprior' = post.ret
  /\ caller' = w
  /\ nmoves' = nmoves + 1
  /\ UNCHANGED lp0
  /\ UNCHANGED <<genVars, likVars, recVars, bndVars>>

PriorNext == Construct \/ \E w \in Walkers : Call(w)

SpecPrior == PriorInit /\ [][PriorNext]_vars

\* ------------------------------------------------- claims on the prior
Called == caller # "none"

\* Every field of the vector passed to the last call is strictly inside the
\* bounds the constructor stored.
StrictlyInside ==
  \A i \in 1..Len(propIn) : lp0.pmin[i] < propIn[i] /\ propIn[i] < lp0.pmax[i]

\* sigma, tau, K and n of the vector passed to the last call are positive.
ScalesPositive ==
  \A i \in SigmaIxs(lp0.nobs) \cup TauIxs(lp0.nobs)
            \cup KIxs(lp0.nobs, lp0.npl) \cup NIxs(lp0.nobs, lp0.npl) :
    propIn[i] > 0

EccPositive == \A i \in EIxs(lp0.nobs, lp0.npl) : propIn[i] > 0

\* The periods 2*pi/n of the vector passed to the last call do not decrease
\* along the planet axis.
PeriodsOrdered ==
  \A j \in 1..(lp0.npl - 1) :
    Period(propIn[IxN(lp0.nobs, j)]) <= Period(propIn[IxN(lp0.nobs, j + 1)])

\* C1: a call with a vector that has a field on or outside its bound
\* returns -infinity: a value, not an exception and not the nan or +inf an
\* accumulated log term could give.
C1_BoundViolationRejected ==
  (Called /\ ~StrictlyInside) => lnprior = NegInfR

\* C1 witness: a call was made with a field exactly on a finite upper bound
\* and every other field inside, and it returned -infinity.
C1_Witness ==
  /\ Called
  /\ \E i \in 1..Len(propIn) :
       /\ propIn[i] = lp0.pmax[i]
       /\ \A m \in 1..Len(propIn) \ {i} :
            lp0.pmin[m] < propIn[m] /\ propIn[m] < lp0.pmax[m]
  /\ lnprior = NegInfR

\* C2 as stated: a vector strictly inside the bounds with positive sigma,
\* tau, K, n always gets a finite log-prior, for any number of planets.
C2_InsideIsFinite_Original ==
  (Called /\ StrictlyInside /\ ScalesPositive) => lnprior.k = "fin"

\* C2 amended: a vector strictly inside the bounds with positive sigma, tau,
\* K, n and e, whose periods do not decrease along the planet axis, gets a
\* finite log-prior.
C2_InsideOrderedIsFinite ==
  (Called /\ StrictlyInside /\ ScalesPositive /\ EccPositive /\ PeriodsOrdered)
    => lnprior.k = "fin"

\* C2 witness: two or more planets with distinct periods in increasing
\* order, every field inside, and a finite log-prior returned.
C2_Witness ==
  /\ Called
  /\ lp0.npl > 1
  /\ StrictlyInside /\ ScalesPositive /\ EccPositive
  /\ Period(propIn[IxN(lp0.nobs, 1)]) < Period(propIn[IxN(lp0.nobs, 2)])
  /\ lnprior.k = "fin"

RngStep(x) == (5 * x + 3) % RngMod

RECURSIVE RngIter(_, _)
RngIter(x0, k) == IF k = 0 THEN RngStep(x0) ELSE RngIter(RngStep(x0), k - 1)

\* The k-th sample (k >= 0) drawn from state x0, as a numerator over RngMod.
\* The generator has full period RngMod, so the k-th sample is the
\* (k mod RngMod)-th.
RngAt(x0, k) == RngIter(x0, k % RngMod)

\* nr.uniform(low, high) for the sample u: low + (high - low) * u, rounded
\* down to the fixed-point grid.  Every interval the model draws from is at
\* least RngMod wide, so rounding never moves a draw onto low: the result
\* is low exactly for u = 0 and is always below high.
Uniform(low, high, u) == low + ((high - low) * u) \div RngMod

\* draw_logarithmic(low, high) for the sample u:
\* exp(uniform(log(low), log(high))), for 0 < low.  The logarithm is taken
\* to base 2 and rounded down, so it is exact at the powers of two the
\* lower bounds of the model are; the intervals span at least RngMod
\* octaves, so again only u = 0 gives low.
DrawLogarithmic(low, high, u) == Pow2(Uniform(ILog2(low), ILog2(high), u))

\* ------------------------------------------------------------- sorting
RECURSIVE InsertSorted(_, _)
InsertSorted(x, s) ==
  IF s = <<>> THEN <<x>>
  ELSE IF x <= Head(s) THEN <<x>> \o s
  ELSE <<Head(s)>> \o InsertSorted(x, Tail(s))

RECURSIVE SortAsc(_)
\* np.sort along the last axis: ascending.
SortAsc(s) == IF s = <<>> THEN <<>> ELSE InsertSorted(Head(s), SortAsc(Tail(s)))

\* a[::-1]
Reverse(s) == [i \in 1..Len(s) |-> s[Len(s) + 1 - i]]

\* Mutant: the sorted mean motions are not reversed.
SortedMeanMotionsAscending(ns) == SortAsc(ns)

\* np.sort(draws)[:, :, ::-1] for one cell: mean motions in decreasing
\* order, that is, periods in increasing order.
SortedMeanMotions(ns) == Reverse(SortAsc(ns))

\* ------------------------------------------- generate_initial_sample
\* The vector of cell c (1..ncell, in C order over temperatures and
\* walkers) of the ensemble that generate_initial_sample builds from the
\* generator state x0.  The draws are consumed in the order of the code:
\* for each observatory V, tau, sigma over all cells; then K, n, e, chi,
\* omega, each over all cells and planets.
CellSample(pmin, pmax, nobs, npl, ncell, x0, c) ==
  LET obsAt(i, f) == RngAt(x0, ((i - 1) * 3 + f) * ncell + (c - 1))
      base == 3 * nobs * ncell
      plAt(f, j) == RngAt(x0, base + f * ncell * npl + (c - 1) * npl + (j - 1))
      ndraw == [j \in 1..npl |->
                  DrawLogarithmic(pmin[IxN(nobs, j)], pmax[IxN(nobs, j)], plAt(1, j))]
      nsort == SortedMeanMotions(ndraw)
  IN [m \in 1..Dim(nobs, npl) |->
        IF m <= 3 * nobs
        THEN LET i == ((m - 1) \div 3) + 1
             IN IF m = IxV(i) THEN Uniform(pmin[m], pmax[m], obsAt(i, 0))
                ELSE IF m = IxTau(i)
                  THEN DrawLogarithmic(pmin[m], pmax[m], obsAt(i, 1))
                ELSE DrawLogarithmic(pmax[m] \div 1000, pmax[m], obsAt(i, 2))
        ELSE LET j == ((m - 3 * nobs - 1) \div 5) + 1
             IN IF m = IxK(nobs, j)
                  THEN DrawLogarithmic(pmin[IxK(nobs, 1)], pmax[IxK(nobs, 1)], plAt(0, j))
                ELSE IF m = IxN(nobs, j) THEN nsort[j]
                ELSE IF m = IxE(nobs, j) THEN Uniform(0, One, plAt(2, j))
                ELSE IF m = IxChi(nobs, j) THEN Uniform(0, One, plAt(3, j))
                ELSE Uniform(0, TwoPi, plAt(4, j))]

\* The number of samples one call draws.
DrawCount(nobs, npl, ncell) == 3 * nobs * ncell + 5 * npl * ncell

\* generate_initial_sample(pmin, pmax, ntemps, nwalkers): the two
\* assertions on the layouts, then the ensemble, a sequence of
\* ntemps*nwalkers vectors in C order.
GenerateInitialSample(bmin, bmax, ntemps, nwalkers, x0) ==
  IF bmin.npl # bmax.npl \/ bmin.nobs # bmax.nobs
  THEN [state |-> "raise", pmin |-> bmin, pmax |-> bmax,
        ntemps |-> ntemps, nwalkers |-> nwalkers, samps |-> <<>>]
  ELSE [state |-> "done", pmin |-> bmin, pmax |-> bmax,
        ntemps |-> ntemps, nwalkers |-> nwalkers,
        samps |-> [c \in 1..(ntemps * nwalkers) |->
                     CellSample(bmin.v, bmax.v, bmin.nobs, bmin.npl,
                                ntemps * nwalkers, x0, c)]]

\* ------------------------------------------- inputs of the initializer
\* Bounds shaped like those prior_bounds_from_data returns: sigma from 0,
\* e and chi in (0, 1), omega in (0, 2*pi), one K and one n interval for
\* all planets.
DataLikeBounds(nobs, npl) ==
  LET lo == [m \in 1..Dim(nobs, npl) |->
               IF m \in VIxs(nobs) THEN 0 - RngMod
               ELSE IF m \in SigmaIxs(nobs) THEN 0
               ELSE IF m \in TauIxs(nobs) \cup KIxs(nobs, npl) \cup NIxs(nobs, npl) THEN 1
               ELSE 0]
      hi == [m \in 1..Dim(nobs, npl) |->
               IF m \in VIxs(nobs) THEN RngMod
               ELSE IF m \in SigmaIxs(nobs) THEN 1000 * Pow2(RngMod)
               ELSE IF m \in TauIxs(nobs) \cup KIxs(nobs, npl) \cup NIxs(nobs, npl)
                 THEN Pow2(RngMod)
               ELSE IF m \in OmegaIxs(nobs, npl) THEN TwoPi
               ELSE One]
  IN [lo |-> lo, hi |-> hi]

\* Bounds a user gives: sigma from above a thousandth of its upper bound, e
\* in (1/4, 3/4), and a K interval that doubles from planet to planet.
UserBounds(nobs, npl) ==
  LET d == DataLikeBounds(nobs, npl)
      lo == [m \in 1..Dim(nobs, npl) |->
               IF m \in SigmaIxs(nobs) THEN 2 * Pow2(RngMod)
               ELSE IF m \in EIxs(nobs, npl) THEN One \div 4
               ELSE IF m \in KIxs(nobs, npl)
                 THEN Pow2(((m - 3 * nobs - 1) \div 5))
               ELSE d.lo[m]]
      hi == [m \in 1..Dim(nobs, npl) |->
               IF m \in EIxs(nobs, npl) THEN (3 * One) \div 4
               ELSE IF m \in KIxs(nobs, npl)
                 THEN Pow2(RngMod) * Pow2(((m - 3 * nobs - 1) \div 5))
               ELSE d.hi[m]]
  IN [lo |-> lo, hi |-> hi]

BoundsChoices(nobs, npl) == {DataLikeBounds(nobs, npl), UserBounds(nobs, npl)}

GenInit ==
  /\ BndIdle
  /\ PriorIdle
  /\ LikIdle
  /\ RecIdle
  /\ rng \in 0..(RngMod - 1)
  /\ gen = [state |-> "idle"]
  /\ seedPrior = NoResult

\* samps = generate_initial_sample(pmin, pmax, ntemps, nwalkers)
Generate ==
  /\ gen.state = "idle"
  /\ \E nobs \in 1..MaxNobs, npl \in 0..MaxNpl, dnpl \in {0, 1},
        ntemps \in 1..MaxTemps, nwalkers \in 1..MaxWalkers :
       \E b \in BoundsChoices(nobs, npl) :
         LET bmin == [v |-> b.lo, nobs |-> nobs, npl |-> npl]
             bmax == IF dnpl = 0 THEN [v |-> b.hi, nobs |-> nobs, npl |-> npl]
                     ELSE [v |-> DataLikeBounds(nobs, npl + 1).hi,
                           nobs |-> nobs, npl |-> npl + 1]
         IN /\ gen' = GenerateInitialSample(bmin, bmax, ntemps, nwalkers, rng)
            /\ rng' = IF gen'.state = "done"
                      THEN RngAt(rng, DrawCount(nobs, npl, ntemps * nwalkers) - 1)
                      ELSE rng
  /\ UNCHANGED <<seedPrior>>
  /\ UNCHANGED <<priorVars, likVars, recVars, bndVars>>

\* The sampler evaluates LogPrior(pmin, pmax, npl, nobs) on the seed of
\* cell c.
EvaluateSeed(c) ==
  /\ gen.state = "done"
  /\ seedPrior = NoResult
  /\ c \in 1..Len(gen.samps)
  /\ seedPrior' =
       LogPriorCall(LogPriorInit(gen.pmin.v, gen.pmax.v, gen.pmin.npl, gen.pmin.nobs),
                    gen.samps[c]).ret
  /\ UNCHANGED <<rng, gen>>
  /\ UNCHANGED <<priorVars, likVars, recVars, bndVars>>

GenNext == Generate \/ \E c \in 1..(MaxTemps * MaxWalkers) : EvaluateSeed(c)

SpecGen == GenInit /\ [][GenNext]_vars

\* ------------------------------------------- claims on the initializer
Generated == gen.state = "done"

\* C3 as stated: every field of every vector of the generated ensemble is
\* strictly inside the bounds the ensemble was generated from.
C3_SeedsStrictlyInside ==
  Generated =>
    \A c \in 1..Len(gen.samps) : \A m \in 1..Len(gen.samps[c]) :
      gen.pmin.v[m] < gen.samps[c][m] /\ gen.samps[c][m] < gen.pmax.v[m]

\* C4: with more than one planet, in every cell of the generated ensemble
\* the periods do not decrease (the mean motions do not increase) along the
\* planet axis, so the ordering test of LogPrior.__call__ rejects no seed.
C4_PeriodsSorted ==
  (Generated /\ gen.pmin.npl > 1) =>
    \A c \in 1..Len(gen.samps) : \A j \in 1..(gen.pmin.npl - 1) :
      /\ gen.samps[c][IxN(gen.pmin.nobs, j)] >= gen.samps[c][IxN(gen.pmin.nobs, j + 1)]
      /\ Period(gen.samps[c][IxN(gen.pmin.nobs, j)])
           <= Period(gen.samps[c][IxN(gen.pmin.nobs, j + 1)])

\* C4 witness: an ensemble with more than one cell and more than one planet
\* in which a cell holds strictly increasing periods, and a seed of it that
\* the prior accepted.
C4_Witness ==
  /\ Generated
  /\ gen.pmin.npl > 1
  /\ Len(gen.samps) > 1
  /\ \E c \in 1..Len(gen.samps) :
       Period(gen.samps[c][IxN(gen.pmin.nobs, 1)])
         < Period(gen.samps[c][IxN(gen.pmin.nobs, 2)])
  /\ seedPrior.k = "fin"

\* ------------------------------------------------- generate_covariance
\* The kernel exp(-|ti - tj| / tau), scaled by Pow2(KernelShift) so that it
\* is an integer.  The exponential is taken to base 4 (tau is measured in
\* units of 1/ln 4), which makes it exact for the tau of the model, the
\* divisors of 2: 4^(-d/tau) = 2^(-2d/tau).
KernelShift == 2 * MaxT
Kernel(d, tau) ==
  IF tau > 0 THEN Pow2(KernelShift - (2 * d) \div tau)
  ELSE Pow2(KernelShift + (2 * d) \div (0 - tau))

\* generate_covariance(ts, sigma, tau), scaled by Pow2(KernelShift):
\* sigma*sigma*exp(-|ti - tj|/tau), for tau # 0.
GenerateCovariance(ts, sigma, tau) ==
  [i \in 1..Len(ts) |-> [j \in 1..Len(ts) |->
     sigma * sigma * Kernel(Abs(ts[i] - ts[j]), tau)]]

\* ------------------------------------------------------- sl.lu_factor
Sign(x) == IF x > 0 THEN 1 ELSE IF x < 0 THEN -1 ELSE 0

\* The row LAPACK's partial pivoting picks for column k: the first row at or
\* below k with the largest absolute value in that column.
PivotRow(A, k, n) ==
  CHOOSE r \in k..n :
    /\ \A q \in k..n : Abs(A[q][k]) <= Abs(A[r][k])
    /\ \A q \in k..(r - 1) : Abs(A[q][k]) < Abs(A[r][k])

RECURSIVE LuSigns(_, _, _, _)
\* The signs of the diagonal of U in P*A = L*U, from column k on.  The
\* rows below the pivot are kept multiplied by the pivots used so far
\* (whose sign is sc), which keeps the elimination in the integers and
\* changes neither the choice of pivot rows nor, once sc is divided out,
\* the signs.  A zero pivot column is skipped, as dgetf2 does.
LuSigns(A, k, n, sc) ==
  IF k > n THEN <<>>
  ELSE LET r == PivotRow(A, k, n)
           B == [A EXCEPT ![k] = A[r], ![r] = A[k]]
           piv == B[k][k]
       IN IF piv = 0 THEN <<0>> \o LuSigns(A, k + 1, n, sc)
          ELSE LET C == [i \in 1..n |->
                           IF i <= k THEN B[i]
                           ELSE [j \in 1..n |-> B[i][j] * piv - B[i][k] * B[k][j]]]
               IN <<Sign(piv) * sc>> \o LuSigns(C, k + 1, n, sc * Sign(piv))

\* np.diag(lu) of sl.lu_factor(cov), as signs.
Lambdas(cov) == LuSigns(cov, 1, Len(cov), 1)

\* ------------------------------------ correlated_gaussian_loglikelihood
\* The class of np.sum(np.log(lambdas)): nan with a negative pivot, else
\* -inf with a zero pivot, else finite.  The value of a finite
\* log-likelihood is not modelled, only that it is finite.
SumLogLambdas(lams) ==
  IF \E k \in 1..Len(lams) : lams[k] < 0 THEN NaNR
  ELSE IF \E k \in 1..Len(lams) : lams[k] = 0 THEN NegInfR
  ELSE Fin(0)

\* The classes np.sum(ds) can have, ds = (xs-means)*lu_solve(...)/2.  With
\* nonzero pivots the solve is finite.  With a zero pivot the triangular
\* solve divides by zero without raising, and what comes out depends on the
\* BLAS and on the right-hand side: +inf, nan or a finite number.
SumDsClasses(lams) ==
  IF \E k \in 1..Len(lams) : lams[k] = 0 THEN {PosInfR, NaNR, Fin(0)}
  ELSE {Fin(0)}

\* The values correlated_gaussian_loglikelihood(xs, means, cov) can return:
\* -log(2 pi)*(ndim/2) - 0.5*sum(log(lambdas)) - sum(ds).
CorrelatedGaussianLoglikelihood(lams) ==
  {ExtSub(ExtSub(Fin(0), SumLogLambdas(lams)), ds) : ds \in SumDsClasses(lams)}

\* One observatory's term of LogLikelihood.__call__: the covariance and the
\* correlated log-likelihood.  With tau = 0 the kernel is exp(-0/0) = nan on
\* the diagonal: lu_factor raises ValueError where it checks its input for
\* nan (check_finite) and the nan propagates where it does not.
ObservatoryTerm(t, sigma, tau) ==
  IF tau = 0 THEN {Raised, NaNR}
  ELSE CorrelatedGaussianLoglikelihood(Lambdas(GenerateCovariance(t, sigma, tau)))

\* Addition in the accumulation ll += term, where a raise ends the call.
AccAdd(a, b) ==
  IF a.k = "raise" \/ b.k = "raise" THEN Raised ELSE ExtAdd(a, b)

RECURSIVE LoopOutcomes(_, _, _, _)
\* What the loop over zip(ts, rvs, p.V, p.sigma, p.tau) can leave in ll
\* after the observatories i..count.
LoopOutcomes(self, p, i, count) ==
  IF i > count THEN {Fin(0)}
  ELSE {AccAdd(a, b) :
          a \in ObservatoryTerm(self.ts[i], p[IxSigma(i)], p[IxTau(i)]),
          b \in LoopOutcomes(self, p, i + 1, count)}

\* The number of observatories the loop visits: zip stops at its shortest
\* argument, and p.V, p.sigma, p.tau have len(rvs) entries.
ZipCount(self) == Min2(Len(self.ts), Len(self.rvs))

\* LogLikelihood.__call__(p): the values it can return, Raised among them
\* when it raises.  nobs = len(self.rvs), npl = (p.shape[-1]-3*nobs)/5, and
\* Parameters(p, nobs=, npl=) raises when the length does not fit.
LogLikelihoodCall(self, p) ==
  LET nobs == Len(self.rvs)
      npl == (Len(p) - 3 * nobs) \div 5
      count == ZipCount(self)
  IN IF npl < 0 \/ ~ShapeOk(p, nobs, npl) \/ count < 0 THEN {Raised}
     ELSE LoopOutcomes(self, p, 1, count)

\* ------------------------------------------- inputs of the likelihood
\* Sample times of one observatory: n non-decreasing times from 0, among
\* them repeated ones.
TimeArrays(n) ==
  {t \in [1..n -> 0..MaxT] :
     t[1] = 0 /\ \A i \in 1..(n - 1) : t[i] <= t[i + 1]}

RvArrays(n) == [1..n -> {0, 1}]

\* The noise parameters of the model: sigma among 0 and 1, tau among the
\* divisors of 2, their negatives and 0.
SigmaValues == {0, 1}
TauValues == {0 - 2, 0 - 1, 0, 1, 2}

\* Parameter vectors for nobs observatories and npl planets: V = 0, any
\* sigma and tau, and every planet field at 1.
LikParams(nobs, npl) ==
  {[m \in 1..Dim(nobs, npl) |->
      IF m > 3 * nobs THEN 1
      ELSE IF m \in VIxs(nobs) THEN 0
      ELSE IF m \in SigmaIxs(nobs) THEN sg[((m - 1) \div 3) + 1]
      ELSE ta[((m - 1) \div 3) + 1]] :
     sg \in [1..nobs -> SigmaValues], ta \in [1..nobs -> TauValues]}

LikInit ==
  /\ BndIdle
  /\ PriorIdle
  /\ GenIdle
  /\ RecIdle
  /\ ll = [ts |-> <<>>, rvs |-> <<>>]
  /\ llcall = [state |-> "idle"]

\* lnlike = LogLikelihood(ts, rvs): one time array and one RV array for
\* each observatory, the two lists not necessarily of the same length.  The
\* arrays of an observatory that has both have the same number of samples.
ConstructLL ==
  /\ ll.rvs = <<>>
  /\ \E nt \in 1..MaxNobs, nr \in 1..MaxNobs :
       \E ns \in [1..Max2(nt, nr) -> 1..MaxSamples] :
         \E ts \in {x \in [1..nt -> UNION {TimeArrays(n) : n \in 1..MaxSamples}] :
                      \A i \in 1..nt : Len(x[i]) = ns[i]} :
           \E rvs \in {x \in [1..nr -> UNION {RvArrays(n) : n \in 1..MaxSamples}] :
                         \A i \in 1..nr : Len(x[i]) = ns[i]} :
             ll' = [ts |-> ts, rvs |-> rvs]
  /\ UNCHANGED llcall
  /\ UNCHANGED <<priorVars, genVars, recVars, bndVars>>

\* lnlike(p), for a vector laid out for len(rvs) observatories.
CallLL ==
  /\ ll.rvs # <<>>
  /\ llcall.state = "idle"
  /\ \E npl \in 0..1 :
       \E p \in LikParams(Len(ll.rvs), npl) :
         \E r \in LogLikelihoodCall(ll, p) :
           llcall' = [state |-> IF r = Raised THEN "raised" ELSE "returned",
                      p |-> p, ret |-> r]
  /\ UNCHANGED ll
  /\ UNCHANGED <<priorVars, genVars, recVars, bndVars>>

LikNext == ConstructLL \/ CallLL

SpecLik == LikInit /\ [][LikNext]_vars

\* ------------------------------------------- claims on the likelihood
RECURSIVE Det(_)
\* The determinant of a square matrix, by expansion along the first row.
Det(M) ==
  LET n == Len(M)
      Minor(c) == [i \in 1..(n - 1) |-> [j \in 1..(n - 1) |->
                    M[i + 1][IF j < c THEN j ELSE j + 1]]]
      Alt(c) == IF c % 2 = 1 THEN 1 ELSE 0 - 1
      Term[c \in 0..n] ==
        IF c = 0 THEN 0 ELSE Term[c - 1] + Alt(c) * M[1][c] * Det(Minor(c))
  IN IF n = 0 THEN 1 ELSE Term[n]

\* A symmetric matrix is positive-definite when every leading principal
\* minor is positive.
PositiveDefinite(M) ==
  \A k \in 1..Len(M) :
    Det([i \in 1..k |-> [j \in 1..k |-> M[i][j]]]) > 0

LLCalled == llcall.state # "idle"

\* The covariance of an observatory the last call visited is not
\* positive-definite (or not a matrix of numbers at all, for tau = 0).
SomeCovarianceNotPD ==
  \E i \in 1..Min2(Len(ll.ts), Len(ll.rvs)) :
    \/ llcall.p[IxTau(i)] = 0
    \/ ~PositiveDefinite(
          GenerateCovariance(ll.ts[i], llcall.p[IxSigma(i)], llcall.p[IxTau(i)]))

\* C5 as stated: a call that meets a covariance matrix that is not
\* positive-definite returns -infinity; it returns nothing else and does
\* not raise.
C5_SingularCovarianceRejected ==
  (LLCalled /\ SomeCovarianceNotPD) => llcall.ret = NegInfR

\* C7 as stated: with len(ts) # len(rvs) the call raises.
C7_LengthMismatchRaises ==
  (LLCalled /\ Len(ll.ts) # Len(ll.rvs)) => llcall.state = "raised"

\* ------------------------------------------------------ recenter_samples
\* Arrays.  An array is a reference [buf, shape, ndim] to a buffer of the
\* heap; the buffer maps each index <<t, w>> of the leading axes (for
\* chains, to a parameter vector; for logls, to a number).  Two arrays with
\* the same buf share storage.
ChainsBuf == "chains"
LoglsBuf == "logls"
CopyBuf == "copy"

Cells(shape) == (0..(shape[1] - 1)) \X (0..(shape[2] - 1))

\* The position of index m in the C-order flattening of an array whose
\* leading axes have the given shape.
FlatIndex(shape, m) == m[1] * shape[2] + m[2]

\* a.ravel(), np.reshape(a, (-1, ndim)): the elements in C order, as a
\* sequence (position k of numpy is element k + 1).
Ravel(a, shape) ==
  [k \in 1..(shape[1] * shape[2]) |->
     a[CHOOSE m \in Cells(shape) : FlatIndex(shape, m) = k - 1]]

\* Mutant: the last of the largest elements.
ArgMaxLast(flat) ==
  (CHOOSE k \in 1..Len(flat) :
     /\ \A q \in 1..Len(flat) : flat[q] <= flat[k]
     /\ \A q \in (k + 1)..Len(flat) : flat[q] < flat[k]) - 1

\* np.argmax of a flattened array: the position, from 0, of the first of
\* its largest elements.
ArgMax(flat) ==
  (CHOOSE k \in 1..Len(flat) :
     /\ \A q \in 1..Len(flat) : flat[q] <= flat[k]
     /\ \A q \in 1..(k - 1) : flat[q] < flat[k]) - 1

\* Parameters(arr) with neither nobs nor npl: the layout is the one the
\* length of the last axis stands for.
InferLayout(len) ==
  CHOOSE lay \in (1..(MaxNobs + 1)) \X (0..(MaxNpl + 1)) : Dim(lay[1], lay[2]) = len

\* samples = Parameters(np.copy(chains)): the buffer samples writes to.
SamplesBuf == CopyBuf

\* Mutant: the two assertions are missing.
LayoutAssertedNot(lay) == TRUE

\* assert samples.npl == 1; assert samples.nobs == 1
LayoutAsserted(lay) == lay[2] = 1 /\ lay[1] = 1

\* np.random.normal(loc, scale) for the sample u: loc and a step to either
\* side of it.  The scale the code derives from p0 is not modelled.
Normal(loc, u) == loc + ((3 * u) \div RngMod) - 1

\* np.random.lognormal(log(x), sigma) for the sample u, x > 0: x and a
\* factor of two to either side.
LogNormal(x, u) == (x * Pow2((3 * u) \div RngMod)) \div 2

\* The vector recenter_samples writes to cell number c (from 0, in C order)
\* of an ensemble of ncell cells around p0.  The fields are drawn in the
\* order V, sigma, tau, K, n, chi, e, omega, each for all cells; past the
\* assertions the layout is one observatory and one planet, so each field
\* is one number.
Perturbed(p0, lay, ncell, x0, c) ==
  LET u(f) == RngAt(x0, f * ncell + c)
      nobs == lay[1]
      npl == lay[2]
  IN [m \in DOMAIN p0 |->
        IF m \in VIxs(nobs) THEN Normal(p0[m], u(0))
        ELSE IF m \in SigmaIxs(nobs) THEN LogNormal(p0[m], u(1))
        ELSE IF m \in TauIxs(nobs) THEN LogNormal(p0[m], u(2))
        ELSE IF m \in KIxs(nobs, npl) THEN Normal(p0[m], u(3))
        ELSE IF m \in NIxs(nobs, npl) THEN LogNormal(p0[m], u(4))
        ELSE IF m \in ChiIxs(nobs, npl) THEN LogNormal(p0[m], u(5))
        ELSE IF m \in EIxs(nobs, npl) THEN LogNormal(p0[m], u(6))
        ELSE LogNormal(p0[m], u(7))]

\* recenter_samples(ts, chains, logls) on the heap h with the generator at
\* x0: the heap and the generator after it, the best row it found, and the
\* ensemble it returns (NoArray when it raises).
NoArray == [buf |-> "none", shape |-> <<>>, ndim |-> 0]
RecenterSamples(h, chains, logls, x0) ==
  LET shape == chains.shape
      ncell == shape[1] * shape[2]
      ibest == ArgMax(Ravel(h[logls.buf], shape))
      p0 == Ravel(h[chains.buf], shape)[ibest + 1]
      sbuf == SamplesBuf
      copied == [h EXCEPT ![sbuf] = h[chains.buf]]
      lay == InferLayout(chains.ndim)
  IN IF ~LayoutAsserted(lay)
     THEN [state |-> "raised", heap |-> copied, rng |-> x0,
           ibest |-> ibest, p0 |-> p0, out |-> NoArray]
     ELSE [state |-> "returned",
           heap |-> [copied EXCEPT ![sbuf] =
                       [m \in Cells(shape) |->
                          Perturbed(p0, lay, ncell, x0, FlatIndex(shape, m))]],
           rng |-> RngAt(x0, 8 * ncell - 1),
           ibest |-> ibest, p0 |-> p0,
           out |-> [buf |-> sbuf, shape |-> shape, ndim |-> chains.ndim]]

\* ---------------------------------------------- inputs of the recenterer
\* The chain the sampler left: in cell <<t, w>> a vector of the layout with
\* every field at 4 but V, which names the cell.
ChainRow(nobs, npl, m) ==
  [i \in 1..Dim(nobs, npl) |-> IF i \in VIxs(nobs) THEN 10 * m[1] + m[2] ELSE 4]

\* The log-likelihoods the sampler left: at most two cells, anywhere, at
\* the high value and the rest at the low one, so the largest is absent
\* from the first cell, unique, or tied.
LoglsChoices(shape) ==
  {[m \in Cells(shape) |-> IF m \in S THEN 1 ELSE 0] :
     S \in {T \in SUBSET Cells(shape) : Cardinality(T) <= 2}}

RecInit ==
  /\ BndIdle
  /\ PriorIdle
  /\ LikIdle
  /\ seedPrior = NoResult
  /\ gen = [state |-> "idle"]
  /\ rng \in 0..(RngMod - 1)
  /\ \E nt \in 1..MaxTemps, nw \in 1..MaxWalkers,
        nobs \in 1..MaxNobs, npl \in 0..MaxNpl :
       \E lg \in LoglsChoices(<<nt, nw>>) :
         /\ heap = [b \in {ChainsBuf, LoglsBuf, CopyBuf} |->
                      IF b = ChainsBuf
                        THEN [m \in Cells(<<nt, nw>>) |-> ChainRow(nobs, npl, m)]
                      ELSE IF b = LoglsBuf THEN lg
                      ELSE <<>>]
         /\ rc = [state |-> "idle",
                  chains |-> [buf |-> ChainsBuf, shape |-> <<nt, nw>>,
                              ndim |-> Dim(nobs, npl)],
                  logls |-> [buf |-> LoglsBuf, shape |-> <<nt, nw>>, ndim |-> 0],
                  layout |-> <<nobs, npl>>]
  /\ heap0 = heap

\* samples = recenter_samples(ts, chains, logls)
Recenter ==
  /\ rc.state = "idle"
  /\ LET r == RecenterSamples(heap, rc.chains, rc.logls, rng)
     IN /\ heap' = r.heap
        /\ rng' = r.rng
        /\ rc' = [rc EXCEPT !.state = r.state] @@
                 [ibest |-> r.ibest, p0 |-> r.p0, out |-> r.out, rng0 |-> rng]
  /\ UNCHANGED <<heap0, gen, seedPrior>>
  /\ UNCHANGED <<priorVars, likVars, bndVars>>

\* The sampler stores a new position in a cell of the ensemble it was
\* given (one step of it).
SamplerWrite ==
  /\ rc.state = "returned"
  /\ \E m \in Cells(rc.out.shape) :
       heap' = [heap EXCEPT ![rc.out.buf][m] = ZeroParams(1, 1)]
  /\ rc' = [rc EXCEPT !.state = "sampled"]
  /\ UNCHANGED <<heap0, rng, gen, seedPrior>>
  /\ UNCHANGED <<priorVars, likVars, bndVars>>

RecNext == Recenter \/ SamplerWrite

SpecRec == RecInit /\ [][RecNext]_vars

\* -------------------------------------------- claims on the recenterer
\* C8: with more than one observatory or a number of planets other than
\* one, recenter_samples raises and returns nothing; no sample was drawn
\* from the generator, and chains and logls hold what they held.
C8_UnsupportedLayoutRaises ==
  (rc.state # "idle" /\ rc.layout # <<1, 1>>) =>
    /\ rc.state = "raised"
    /\ rc.out = NoArray
    /\ rng = rc.rng0
    /\ heap[ChainsBuf] = heap0[ChainsBuf]
    /\ heap[LoglsBuf] = heap0[LoglsBuf]

\* C8 witness: a call with two observatories and one planet raised.
C8_Witness ==
  /\ rc.state = "raised"
  /\ rc.layout = <<2, 1>>

\* Index a comes before index b in C order.
LexBefore(a, b) == a[1] < b[1] \/ (a[1] = b[1] /\ a[2] < b[2])

\* C10: the row recenter_samples centres on is the vector stored at the
\* index of the largest logls, the first such index in C order; and the
\* ensemble returned has the shape of chains and storage of its own, so
\* chains and logls hold what they held whatever is written to it.
C10_BestRowAndFreshStorage ==
  (rc.state # "idle") =>
    /\ \E m \in Cells(rc.chains.shape) :
         /\ \A q \in Cells(rc.chains.shape) :
              /\ heap0[LoglsBuf][q] <= heap0[LoglsBuf][m]
              /\ LexBefore(q, m) => heap0[LoglsBuf][q] < heap0[LoglsBuf][m]
         /\ rc.p0 = heap0[ChainsBuf][m]
    /\ heap[ChainsBuf] = heap0[ChainsBuf]
    /\ heap[LoglsBuf] = heap0[LoglsBuf]
    /\ (rc.state \in {"returned", "sampled"}) =>
         /\ rc.out.buf \notin {ChainsBuf, LoglsBuf}
         /\ rc.out.shape = rc.chains.shape
         /\ rc.out.ndim = rc.chains.ndim
         /\ DOMAIN heap[rc.out.buf] = Cells(rc.chains.shape)

\* C10 witness: an ensemble was returned for a chain of more than one
\* temperature and walker whose largest logls is tied and is not in the
\* first cell, and the sampler has written to the ensemble.
C10_Witness ==
  /\ rc.state = "sampled"
  /\ rc.chains.shape[1] > 1 /\ rc.chains.shape[2] > 1
  /\ rc.p0 # heap0[ChainsBuf][<<0, 0>>]
  /\ \E a, b \in Cells(rc.chains.shape) :
       a # b /\ heap0[LoglsBuf][a] = 1 /\ heap0[LoglsBuf][b] = 1
  /\ heap[rc.out.buf] # heap0[ChainsBuf]
  /\ \E m \in Cells(rc.out.shape) : heap[rc.out.buf][m] = ZeroParams(1, 1)

\* ------------------------------------------------ prior_bounds_from_data
\* Times and radial velocities are whole numbers; the bounds computed from
\* them are in units of 1/One.
MaxData == 3
MaxRv == 2

RECURSIVE ISqrt(_)
\* The whole part of the square root of x >= 0.
ISqrt(x) ==
  IF x = 0 THEN 0
  ELSE LET r == 2 * ISqrt(x \div 4)
       IN IF (r + 1) * (r + 1) <= x THEN r + 1 ELSE r

RECURSIVE SeqSum(_)
SeqSum(xs) == IF xs = <<>> THEN 0 ELSE Head(xs) + SeqSum(Tail(xs))

SeqMin(xs) == CHOOSE x \in {xs[i] : i \in DOMAIN xs} : \A i \in DOMAIN xs : x <= xs[i]
SeqMax(xs) == CHOOSE x \in {xs[i] : i \in DOMAIN xs} : \A i \in DOMAIN xs : xs[i] <= x

\* np.diff(a)
Diff(a) == [i \in 1..(Len(a) - 1) |-> a[i + 1] - a[i]]

\* np.std(a), in units of 1/One: the root of the mean squared deviation.
Std(a) ==
  LET n == Len(a)
      sq == [i \in 1..n |-> a[i] * a[i]]
  IN ISqrt(One * One * (n * SeqSum(sq) - SeqSum(a) * SeqSum(a))) \div n

\* prior_bounds_from_data(npl, ts, rvs): the pair (pmin, pmax).
PriorBoundsFromData(npl, ts, rvs) ==
  LET nobs == Len(ts)
      min_dt == SeqMin([i \in 1..nobs |-> SeqMin(Diff(ts[i]))])
      max_obst == SeqMax([i \in 1..nobs |-> ts[i][Len(ts[i])] - ts[i][1]])
      min_dv == SeqMin([i \in 1..nobs |->
                          SeqMin([k \in 1..(Len(rvs[i]) - 1) |-> Abs(Diff(rvs[i])[k])])])
      maxspread == SeqMax([i \in 1..nobs |-> SeqMax(rvs[i]) - SeqMin(rvs[i])])
      spread(i) == SeqMax(rvs[i]) - SeqMin(rvs[i])
      T(i) == ts[i][Len(ts[i])] - ts[i][1]
      obs(k) == ((k - 1) \div 3) + 1
      pmin == [k \in 1..Dim(nobs, npl) |->
                 IF k \in VIxs(nobs) THEN One * (SeqMin(rvs[obs(k)]) - spread(obs(k)))
                 ELSE IF k \in TauIxs(nobs) THEN (One * SeqMin(Diff(ts[obs(k)]))) \div 10
                 ELSE IF k \in SigmaIxs(nobs) THEN 0
                 ELSE IF k \in NIxs(nobs, npl) THEN TwoPi \div max_obst
                 ELSE IF k \in KIxs(nobs, npl) THEN One * min_dv
                 ELSE 0]
      pmax == [k \in 1..Dim(nobs, npl) |->
                 IF k \in VIxs(nobs) THEN One * (SeqMax(rvs[obs(k)]) + spread(obs(k)))
                 ELSE IF k \in TauIxs(nobs) THEN One * T(obs(k)) * 10
                 ELSE IF k \in SigmaIxs(nobs) THEN 2 * Std(rvs[obs(k)])
                 ELSE IF k \in NIxs(nobs, npl) THEN TwoPi \div min_dt
                 ELSE IF k \in KIxs(nobs, npl) THEN One * 2 * maxspread
                 ELSE IF k \in OmegaIxs(nobs, npl) THEN TwoPi
                 ELSE One]
  IN [pmin |-> pmin, pmax |-> pmax]

\* ------------------------------------------------------ inputs: the data
\* The sample times of one observatory: two or more, strictly increasing.
SampleTimes ==
  UNION {{t \in [1..n -> 0..MaxT] : \A i \in 1..(n - 1) : t[i] < t[i + 1]} :
           n \in 2..MaxData}

\* The radial velocities observed at n times.
SampleRvs(n) == [1..n -> 0..MaxRv]

BndInit ==
  /\ PriorIdle
  /\ GenIdle
  /\ LikIdle
  /\ RecIdle
  /\ BndIdle

\* pmin, pmax = prior_bounds_from_data(npl, ts, rvs)
ComputeBounds ==
  /\ pb.state = "idle"
  /\ \E nobs \in 1..MaxNobs, npl \in 0..MaxNpl :
       \E ts \in [1..nobs -> SampleTimes] :
         \E rvs \in {r \in [1..nobs -> UNION {SampleRvs(n) : n \in 2..MaxData}] :
                       \A i \in 1..nobs : Len(r[i]) = Len(ts[i])} :
           LET b == PriorBoundsFromData(npl, ts, rvs)
           IN pb' = [state |-> "returned", nobs |-> nobs, npl |-> npl,
                     ts |-> ts, rvs |-> rvs, pmin |-> b.pmin, pmax |-> b.pmax]
  /\ UNCHANGED <<priorVars, genVars, likVars, recVars>>

BndNext == ComputeBounds

SpecBnd == BndInit /\ [][BndNext]_vars

\* ------------------------------------------ claims on the data bounds
\* C9 (as stated; refuted): whatever the data, every field of the pmin
\* returned by prior_bounds_from_data is strictly below that field of the
\* pmax returned.
C9_BoundsStrictlyOrdered ==
  (pb.state = "returned") =>
    \A k \in 1..Dim(pb.nobs, pb.npl) : pb.pmin[k] < pb.pmax[k]

====
